---- MODULE Spec2Model ----
(***************************************************************************)
(* pypresenter: a transparent overlay that shows a spotlight or a laser    *)
(* trail at the pointer, driven by global hotkeys.                         *)
(*                                                                         *)
(* Two threads.  The pynput listener thread runs the hotkey handlers       *)
(* (handle_mode_switch, handle_activate, handle_deactivate); it writes     *)
(* global_state and emits Qt signals.  The emitter lives in the GUI        *)
(* thread, so a signal emitted by the listener is queued and its slot runs *)
(* later in the GUI thread (queue); a signal emitted by the GUI thread     *)
(* itself (screen_changed) calls its slot at once.  The GUI thread runs    *)
(* one handler at a time: queued slots, the two QTimers, the single-shot   *)
(* timers and paintEvent.                                                  *)
(*                                                                         *)
(* Positions are one-dimensional.  A geometry is the origin of a display.  *)
(***************************************************************************)
EXTENDS Integers, Sequences, FiniteSets, TLC

VARIABLES
    MODES,              \* config.MODES, fixed after load_config
    IS_DARWIN,          \* platform flag, fixed at import
    LASER_MIN_ALPHA,    \* config.LASER_MIN_ALPHA, fixed after load_config
    app_exec,           \* the GUI thread is inside app.exec()
    global_state,       \* GlobalState: mode_index, current_mode, is_toggled_on
    overlay,            \* PresenterOverlay: fields, timers and pending update
    current_geometry,   \* PresenterOverlay._current_geometry (class attribute)
    cursor,             \* QCursor.pos(), global coordinates (environment)
    queue,              \* signals queued from the listener to the GUI thread
    hk_pc,              \* position of the listener thread inside a handler
    held,               \* the presenter's button is physically down (history)
    frame               \* painter operations of the last paintEvent

vars == <<MODES, IS_DARWIN, LASER_MIN_ALPHA, app_exec, global_state, overlay,
          current_geometry, cursor, queue, hk_pc, held, frame>>

-----------------------------------------------------------------------------
(* Bounds of the model *)

\* config.LASER_MAX_TRAIL_LENGTH (max_trail_length of the config file; 15 by default)
LASER_MAX_TRAIL_LENGTH == 2
\* signals the listener may have queued and the GUI thread not yet handled
MaxQueue == 1
\* single-shot timers of one kind that may be outstanding
MaxPending == 1
\* the longest trail whose painting is examined on its own (AlphaSpec); a
\* max_trail_length of 15 is the default of the config file
MaxTotal == 15

\* Config.__init__: the default of LASER_MIN_ALPHA (min_alpha of the config file)
DEFAULT_LASER_MIN_ALPHA == 25

\* the pointer's global coordinate (environment)
Positions == {0, 1, 2}

\* mode sequences the config file may give (General/modes); any word is accepted
ModeConfigs ==
    { <<>>,
      <<"SPOTLIGHT_HOLD", "LASER">>,
      <<"SPOTLIGHT_TOGGLE", "LASER", "OTHER">> }

None == "None"

-----------------------------------------------------------------------------
(* Displays: position 0 is on display 0, position 1 on display 1, any other *)
(* position is on no display.  The geometry of a display is its origin.     *)

Displays == {0, 1}

\* QApplication.screenAt: <<display>>, or <<>> for Python's None
screenAt(pos) == IF pos \in Displays THEN <<pos>> ELSE <<>>

\* QApplication.primaryScreen().geometry()
primaryScreen == 0

_get_current_screen_geometry(pos) ==
    IF screenAt(pos) = <<>> THEN primaryScreen ELSE screenAt(pos)[1]

\* QWidget.mapFromGlobal: global to widget coordinates
mapFromGlobal(geometry, pos) == pos - geometry

-----------------------------------------------------------------------------
(* GlobalState *)

GlobalState_init(modes) ==
    IF modes # <<>>
    THEN [mode_index |-> 0, current_mode |-> modes[1], is_toggled_on |-> FALSE]
    ELSE [mode_index |-> 0, current_mode |-> "SPOTLIGHT_HOLD", is_toggled_on |-> FALSE]

\* cycle_mode without the reset of is_toggled_on
cycle_mode_keeps_toggle(gs, modes) ==
    IF modes = <<>>
    THEN gs
    ELSE LET i == (gs.mode_index + 1) % Len(modes)
         IN [gs EXCEPT !.mode_index = i, !.current_mode = modes[i + 1]]

\* cycle_mode that advances mode_index before it looks at the sequence
cycle_mode_counts_on_empty(gs, modes) ==
    IF modes = <<>>
    THEN [gs EXCEPT !.mode_index = gs.mode_index + 1]
    ELSE LET i == (gs.mode_index + 1) % Len(modes)
         IN [mode_index |-> i, current_mode |-> modes[i + 1], is_toggled_on |-> FALSE]

\* sequences are 1-based: config.MODES[i] is modes[i + 1]
cycle_mode(gs, modes) ==
    IF modes = <<>>
    THEN gs
    ELSE LET i == (gs.mode_index + 1) % Len(modes)
         IN [mode_index |-> i, current_mode |-> modes[i + 1], is_toggled_on |-> FALSE]

cycle_mode_result(gs, modes) ==
    IF modes = <<>> THEN "SPOTLIGHT_HOLD" ELSE cycle_mode(gs, modes).current_mode

-----------------------------------------------------------------------------
(* PresenterOverlay *)

_update_mode_flags(o, m) ==
    [o EXCEPT !.is_spotlight_mode = (m \in {"SPOTLIGHT_HOLD", "SPOTLIGHT_TOGGLE"}),
              !.is_laser_mode = (m = "LASER")]

_update_timer_state(o) ==
    IF o.is_laser_mode THEN [o EXCEPT !.timer_active = TRUE]
    ELSE IF o.is_spotlight_mode THEN [o EXCEPT !.timer_active = TRUE]
    ELSE [o EXCEPT !.timer_active = FALSE]

PresenterOverlay_init(initial_geometry, m) ==
    _update_timer_state(_update_mode_flags(
        [overlay_active |-> FALSE,
         mouse_pos |-> 0,
         laser_trail |-> <<>>,
         is_spotlight_mode |-> FALSE,
         is_laser_mode |-> FALSE,
         timer_active |-> FALSE,
         geometry |-> initial_geometry,
         update_pending |-> TRUE,            \* show()
         reactivate_pending |-> 0,           \* QTimer.singleShot(150, activate_effect)
         previous_frontmost_app |-> None,    \* _previous_frontmost_app
         focus_restore_pending |-> 0],       \* QTimer.singleShot(30, _reactivate)
        m))

\* activate_effect without the test of overlay_active
activate_effect_unguarded(o, front, pos) ==
    [o EXCEPT !.overlay_active = TRUE,
              !.previous_frontmost_app = IF IS_DARWIN THEN front ELSE @,
              !.mouse_pos = mapFromGlobal(o.geometry, pos),
              !.update_pending = TRUE]

\* front: workspace.frontmostApplication(), None when the call fails
activate_effect(o, front, pos) ==
    IF ~o.overlay_active
    THEN [o EXCEPT !.overlay_active = TRUE,
                   !.previous_frontmost_app = IF IS_DARWIN THEN front ELSE @,
                   !.mouse_pos = mapFromGlobal(o.geometry, pos),
                   !.update_pending = TRUE]
    ELSE o

\* deactivate_effect without its call of update()
deactivate_effect_no_update(o, is_mode_switch) ==
    IF o.overlay_active
    THEN [o EXCEPT !.overlay_active = FALSE,
                   !.laser_trail = <<>>,
                   !.focus_restore_pending =
                       IF IS_DARWIN /\ ~is_mode_switch /\ o.previous_frontmost_app # None
                       THEN @ + 1 ELSE @]
    ELSE o

\* deactivate_effect without laser_trail.clear()
deactivate_effect_keeps_trail(o, is_mode_switch) ==
    IF o.overlay_active
    THEN [o EXCEPT !.overlay_active = FALSE,
                   !.update_pending = TRUE,
                   !.focus_restore_pending =
                       IF IS_DARWIN /\ ~is_mode_switch /\ o.previous_frontmost_app # None
                       THEN @ + 1 ELSE @]
    ELSE o

deactivate_effect(o, is_mode_switch) ==
    IF o.overlay_active
    THEN [o EXCEPT !.overlay_active = FALSE,
                   !.laser_trail = <<>>,
                   !.update_pending = TRUE,
                   !.focus_restore_pending =
                       IF IS_DARWIN /\ ~is_mode_switch /\ o.previous_frontmost_app # None
                       THEN @ + 1 ELSE @]
    ELSE o

\* the closure _reactivate of deactivate_effect
_reactivate(o) ==
    [o EXCEPT !.previous_frontmost_app = None,
              !.focus_restore_pending = @ - 1]

\* _on_mode_changed without its call of deactivate_effect
_on_mode_changed_no_deactivate(o, m) ==
    LET o2 == _update_mode_flags(o, m)
        o3 == [o2 EXCEPT !.update_pending = TRUE]
    IN _update_timer_state(o3)

_on_mode_changed(o, m) ==
    LET o1 == deactivate_effect(o, TRUE)
        o2 == _update_mode_flags(o1, m)
        o3 == [o2 EXCEPT !.update_pending = TRUE]
    IN _update_timer_state(o3)

\* _on_screen_changed that restores the effect whether or not it was active
_on_screen_changed_always_restores(o, pos) ==
    LET o1 == deactivate_effect(o, TRUE)
    IN [o1 EXCEPT !.geometry = _get_current_screen_geometry(pos),
                  !.update_pending = TRUE,
                  !.reactivate_pending = @ + 1]

\* pos: the pointer when the handler reads it
_on_screen_changed(o, pos) ==
    LET was_active == o.overlay_active
        o1 == deactivate_effect(o, TRUE)
    IN [o1 EXCEPT !.geometry = _get_current_screen_geometry(pos),
                  !.update_pending = TRUE,
                  !.reactivate_pending = IF was_active THEN @ + 1 ELSE @]

\* _on_timer_tick that appends without evicting
_on_timer_tick_no_evict(o, pos) ==
    LET local_pos == mapFromGlobal(o.geometry, pos) IN
    IF local_pos = o.mouse_pos
    THEN IF o.is_laser_mode /\ Len(o.laser_trail) > 1
         THEN [o EXCEPT !.laser_trail = Tail(@),
                        !.update_pending = @ \/ o.overlay_active]
         ELSE o
    ELSE [o EXCEPT !.mouse_pos = local_pos,
                   !.laser_trail = IF o.is_laser_mode /\ o.overlay_active
                                   THEN Append(@, local_pos) ELSE @,
                   !.update_pending = @ \/ o.overlay_active]

\* _on_timer_tick whose idle decay tests len > 0 instead of len > 1
_on_timer_tick_decay_to_empty(o, pos) ==
    LET local_pos == mapFromGlobal(o.geometry, pos) IN
    IF local_pos = o.mouse_pos
    THEN IF o.is_laser_mode /\ Len(o.laser_trail) > 0
         THEN [o EXCEPT !.laser_trail = Tail(@),
                        !.update_pending = @ \/ o.overlay_active]
         ELSE o
    ELSE LET appended == Append(o.laser_trail, local_pos)
             trail == IF o.is_laser_mode /\ o.overlay_active
                      THEN IF Len(appended) > LASER_MAX_TRAIL_LENGTH
                           THEN Tail(appended) ELSE appended
                      ELSE o.laser_trail
         IN [o EXCEPT !.mouse_pos = local_pos,
                      !.laser_trail = trail,
                      !.update_pending = @ \/ o.overlay_active]

\* _on_timer_tick that appends in laser mode whether or not the effect is active
_on_timer_tick_appends_inactive(o, pos) ==
    LET local_pos == mapFromGlobal(o.geometry, pos) IN
    IF local_pos = o.mouse_pos
    THEN IF o.is_laser_mode /\ Len(o.laser_trail) > 1
         THEN [o EXCEPT !.laser_trail = Tail(@),
                        !.update_pending = @ \/ o.overlay_active]
         ELSE o
    ELSE LET appended == Append(o.laser_trail, local_pos)
             trail == IF o.is_laser_mode
                      THEN IF Len(appended) > LASER_MAX_TRAIL_LENGTH
                           THEN Tail(appended) ELSE appended
                      ELSE o.laser_trail
         IN [o EXCEPT !.mouse_pos = local_pos,
                      !.laser_trail = trail,
                      !.update_pending = @ \/ o.overlay_active]

\* _on_timer_tick that inserts the new point at the front of the trail
_on_timer_tick_prepends(o, pos) ==
    LET local_pos == mapFromGlobal(o.geometry, pos) IN
    IF local_pos = o.mouse_pos
    THEN IF o.is_laser_mode /\ Len(o.laser_trail) > 1
         THEN [o EXCEPT !.laser_trail = Tail(@),
                        !.update_pending = @ \/ o.overlay_active]
         ELSE o
    ELSE LET inserted == <<local_pos>> \o o.laser_trail
             trail == IF o.is_laser_mode /\ o.overlay_active
                      THEN IF Len(inserted) > LASER_MAX_TRAIL_LENGTH
                           THEN Tail(inserted) ELSE inserted
                      ELSE o.laser_trail
         IN [o EXCEPT !.mouse_pos = local_pos,
                      !.laser_trail = trail,
                      !.update_pending = @ \/ o.overlay_active]

\* _on_timer_tick that asks for a repaint on every tick of an active effect
_on_timer_tick_idle_update(o, pos) ==
    LET local_pos == mapFromGlobal(o.geometry, pos) IN
    IF local_pos = o.mouse_pos
    THEN IF o.is_laser_mode /\ Len(o.laser_trail) > 1
         THEN [o EXCEPT !.laser_trail = Tail(@),
                        !.update_pending = @ \/ o.overlay_active]
         ELSE [o EXCEPT !.update_pending = @ \/ o.overlay_active]
    ELSE LET appended == Append(o.laser_trail, local_pos)
             trail == IF o.is_laser_mode /\ o.overlay_active
                      THEN IF Len(appended) > LASER_MAX_TRAIL_LENGTH
                           THEN Tail(appended) ELSE appended
                      ELSE o.laser_trail
         IN [o EXCEPT !.mouse_pos = local_pos,
                      !.laser_trail = trail,
                      !.update_pending = @ \/ o.overlay_active]

\* _on_timer_tick whose idle branch drops the newest point, pop() for pop(0)
_on_timer_tick_pops_newest(o, pos) ==
    LET local_pos == mapFromGlobal(o.geometry, pos) IN
    IF local_pos = o.mouse_pos
    THEN IF o.is_laser_mode /\ Len(o.laser_trail) > 1
         THEN [o EXCEPT !.laser_trail = SubSeq(@, 1, Len(@) - 1),
                        !.update_pending = @ \/ o.overlay_active]
         ELSE o
    ELSE LET appended == Append(o.laser_trail, local_pos)
             trail == IF o.is_laser_mode /\ o.overlay_active
                      THEN IF Len(appended) > LASER_MAX_TRAIL_LENGTH
                           THEN Tail(appended) ELSE appended
                      ELSE o.laser_trail
         IN [o EXCEPT !.mouse_pos = local_pos,
                      !.laser_trail = trail,
                      !.update_pending = @ \/ o.overlay_active]

_on_timer_tick(o, pos) ==
    LET local_pos == mapFromGlobal(o.geometry, pos) IN
    IF local_pos = o.mouse_pos
    THEN IF o.is_laser_mode /\ Len(o.laser_trail) > 1
         THEN [o EXCEPT !.laser_trail = Tail(@),
                        !.update_pending = @ \/ o.overlay_active]
         ELSE o
    ELSE LET appended == Append(o.laser_trail, local_pos)
             trail == IF o.is_laser_mode /\ o.overlay_active
                      THEN IF Len(appended) > LASER_MAX_TRAIL_LENGTH
                           THEN Tail(appended) ELSE appended
                      ELSE o.laser_trail
         IN [o EXCEPT !.mouse_pos = local_pos,
                      !.laser_trail = trail,
                      !.update_pending = @ \/ o.overlay_active]

-----------------------------------------------------------------------------
(* paintEvent: the sequence of painter operations of one repaint *)

\* laser_alpha with the interpolation running from the newest dot to the oldest
laser_alpha_reversed(i, total) ==
    IF i = total - 1 THEN 255
    ELSE IF total > 1
         THEN LASER_MIN_ALPHA
                  + ((255 - LASER_MIN_ALPHA) * (total - 1 - i)) \div (total - 1)
         ELSE 255

\* int(LASER_MIN_ALPHA + (255 - LASER_MIN_ALPHA) * (i / float(total - 1))): for
\* LASER_MIN_ALPHA in 0..255 the float expression is not negative and int()
\* gives the floor of the exact quotient (compared for every total up to 40)
laser_alpha(i, total) ==
    IF i = total - 1 THEN 255
    ELSE IF total > 1
         THEN LASER_MIN_ALPHA + ((255 - LASER_MIN_ALPHA) * i) \div (total - 1)
         ELSE 255

laser_dot(o, i) ==
    LET total == Len(o.laser_trail) IN
    [op |-> "drawEllipse", mode |-> "SourceOver", at |-> o.laser_trail[i + 1],
     alpha |-> laser_alpha(i, total),
     radius |-> IF i = total - 1 THEN "base*head" ELSE "base"]

\* paintEvent that draws the ring before it cuts the hole
paintEvent_ring_first(o) ==
    LET clear == <<[op |-> "fillRect", mode |-> "SourceOver", color |-> "transparent"]>>
    IN IF ~o.overlay_active THEN clear
       ELSE IF o.is_spotlight_mode
       THEN clear \o
            << [op |-> "fillRect", mode |-> "SourceOver", color |-> "BACKGROUND_COLOR"],
               [op |-> "drawEllipse", mode |-> "SourceOver", at |-> o.mouse_pos,
                radius |-> "rim_radius"],
               [op |-> "drawEllipse", mode |-> "DestinationOut", at |-> o.mouse_pos,
                radius |-> "hole_radius"] >>
       ELSE IF o.is_laser_mode
       THEN clear \o [k \in 1..Len(o.laser_trail) |-> laser_dot(o, k - 1)]
       ELSE clear

paintEvent(o) ==
    LET clear == <<[op |-> "fillRect", mode |-> "SourceOver", color |-> "transparent"]>>
    IN IF ~o.overlay_active THEN clear
       ELSE IF o.is_spotlight_mode
       THEN clear \o
            << [op |-> "fillRect", mode |-> "SourceOver", color |-> "BACKGROUND_COLOR"],
               [op |-> "drawEllipse", mode |-> "DestinationOut", at |-> o.mouse_pos,
                radius |-> "hole_radius"],
               [op |-> "drawEllipse", mode |-> "SourceOver", at |-> o.mouse_pos,
                radius |-> "rim_radius"] >>
       ELSE IF o.is_laser_mode
       THEN clear \o [k \in 1..Len(o.laser_trail) |-> laser_dot(o, k - 1)]
       ELSE clear

-----------------------------------------------------------------------------
(* Initial state: after main() has built the overlay and started the listener *)

Init ==
    /\ MODES \in ModeConfigs
    /\ LASER_MIN_ALPHA = DEFAULT_LASER_MIN_ALPHA
    /\ app_exec = TRUE
    /\ IS_DARWIN = FALSE
    /\ cursor \in Positions
    /\ global_state = GlobalState_init(MODES)
    /\ overlay = PresenterOverlay_init(_get_current_screen_geometry(cursor),
                                       global_state.current_mode)
    /\ current_geometry = _get_current_screen_geometry(cursor)
    /\ queue = <<>>
    /\ hk_pc = "idle"
    /\ held = FALSE
    /\ frame = <<>>

-----------------------------------------------------------------------------
(* The listener thread *)

\* a queued signal is <<name>> or <<name, argument>>
emit(sig) == queue' = Append(queue, sig)

\* handle_mode_switch: cycle_mode runs in the listener thread.  The GUI thread
\* reads current_mode only, so the three assignments of cycle_mode take effect
\* for it at the last one; the emit is a later step.
HK_mode_switch ==
    /\ hk_pc = "idle"
    /\ global_state' = cycle_mode(global_state, MODES)
    /\ hk_pc' = "emit_mode_changed"
    /\ UNCHANGED <<MODES, IS_DARWIN, LASER_MIN_ALPHA, app_exec,
                   overlay, current_geometry, cursor, queue,
                   held, frame>>

HK_emit_mode_changed ==
    /\ hk_pc = "emit_mode_changed"
    /\ Len(queue) < MaxQueue
    /\ emit(<<"mode_changed", global_state.current_mode>>)
    /\ hk_pc' = "idle"
    /\ UNCHANGED <<MODES, IS_DARWIN, LASER_MIN_ALPHA, app_exec,
                   global_state, overlay, current_geometry,
                   cursor, held, frame>>

\* handle_activate, up to and including its emit
HK_activate ==
    /\ hk_pc = "idle"
    /\ held' = TRUE
    /\ IF global_state.current_mode = "SPOTLIGHT_TOGGLE"
       THEN /\ Len(queue) < MaxQueue
            /\ IF ~global_state.is_toggled_on
               THEN emit(<<"effect_activate">>) /\ hk_pc' = "set_toggled_on"
               ELSE emit(<<"effect_deactivate">>) /\ hk_pc' = "set_toggled_off"
       ELSE IF global_state.current_mode \in {"SPOTLIGHT_HOLD", "LASER"}
       THEN /\ Len(queue) < MaxQueue
            /\ emit(<<"effect_activate">>)
            /\ hk_pc' = "idle"
       ELSE UNCHANGED <<queue, hk_pc>>
    /\ UNCHANGED <<MODES, IS_DARWIN, LASER_MIN_ALPHA, app_exec,
                   global_state, overlay, current_geometry,
                   cursor, frame>>

\* handle_activate, the assignment to is_toggled_on after the emit
HK_set_toggled ==
    /\ hk_pc \in {"set_toggled_on", "set_toggled_off"}
    /\ global_state' = [global_state EXCEPT !.is_toggled_on = (hk_pc = "set_toggled_on")]
    /\ hk_pc' = "idle"
    /\ UNCHANGED <<MODES, IS_DARWIN, LASER_MIN_ALPHA, app_exec,
                   overlay, current_geometry, cursor, queue,
                   held, frame>>

\* handle_deactivate without the test of the mode
HK_deactivate_any_mode ==
    /\ hk_pc = "idle"
    /\ held' = FALSE
    /\ Len(queue) < MaxQueue /\ emit(<<"effect_deactivate">>)
    /\ UNCHANGED <<MODES, IS_DARWIN, LASER_MIN_ALPHA, app_exec,
                   global_state, overlay, current_geometry,
                   cursor, hk_pc, frame>>

HK_deactivate ==
    /\ hk_pc = "idle"
    /\ held' = FALSE
    /\ IF global_state.current_mode \in {"SPOTLIGHT_HOLD", "LASER"}
       THEN Len(queue) < MaxQueue /\ emit(<<"effect_deactivate">>)
       ELSE UNCHANGED queue
    /\ UNCHANGED <<MODES, IS_DARWIN, LASER_MIN_ALPHA, app_exec,
                   global_state, overlay, current_geometry,
                   cursor, hk_pc, frame>>

-----------------------------------------------------------------------------
(* The GUI thread *)

Slot_activate_effect ==
    /\ queue # <<>> /\ Head(queue)[1] = "effect_activate"
    /\ queue' = Tail(queue)
    /\ \E front \in {"app", None} :
           overlay' = activate_effect(overlay, IF IS_DARWIN THEN front ELSE None, cursor)
    /\ UNCHANGED <<MODES, IS_DARWIN, LASER_MIN_ALPHA, app_exec,
                   global_state, current_geometry, cursor,
                   hk_pc, held, frame>>

Slot_deactivate_effect ==
    /\ queue # <<>> /\ Head(queue)[1] = "effect_deactivate"
    /\ queue' = Tail(queue)
    /\ deactivate_effect(overlay, FALSE).focus_restore_pending <= MaxPending
    /\ overlay' = deactivate_effect(overlay, FALSE)
    /\ UNCHANGED <<MODES, IS_DARWIN, LASER_MIN_ALPHA, app_exec,
                   global_state, current_geometry, cursor,
                   hk_pc, held, frame>>

\* the slot of mode_changed calling cycle_mode once more
Slot_on_mode_changed_cycles ==
    /\ queue # <<>> /\ Head(queue)[1] = "mode_changed"
    /\ queue' = Tail(queue)
    /\ global_state' = cycle_mode(global_state, MODES)
    /\ overlay' = _on_mode_changed(overlay, global_state'.current_mode)
    /\ UNCHANGED <<MODES, IS_DARWIN, LASER_MIN_ALPHA, app_exec,
                   current_geometry, cursor, hk_pc, held, frame>>

\* the new_mode argument is only printed; the flags are re-read from
\* global_state.current_mode
Slot_on_mode_changed ==
    /\ queue # <<>> /\ Head(queue)[1] = "mode_changed"
    /\ queue' = Tail(queue)
    /\ overlay' = _on_mode_changed(overlay, global_state.current_mode)
    /\ UNCHANGED <<MODES, IS_DARWIN, LASER_MIN_ALPHA, app_exec,
                   global_state, current_geometry, cursor,
                   hk_pc, held, frame>>

\* timer.timeout
TimerTick ==
    /\ overlay.timer_active
    /\ overlay' = _on_timer_tick(overlay, cursor)
    /\ UNCHANGED <<MODES, IS_DARWIN, LASER_MIN_ALPHA, app_exec,
                   global_state, current_geometry, cursor,
                   queue, hk_pc, held, frame>>

\* screen_check_timer.timeout: _check_screen_change, and _on_screen_changed
\* called through the direct connection.  The pointer is read twice and may
\* move in between (pos2).
ScreenCheckTick ==
    LET new_geom == _get_current_screen_geometry(cursor) IN
    /\ IF new_geom # current_geometry
       THEN /\ overlay.reactivate_pending < MaxPending \/ ~overlay.overlay_active
            /\ current_geometry' = new_geom
            /\ \E pos2 \in Positions :
                   /\ cursor' = pos2
                   /\ overlay' = _on_screen_changed(overlay, pos2)
       ELSE UNCHANGED <<current_geometry, cursor, overlay>>
    /\ UNCHANGED <<MODES, IS_DARWIN, LASER_MIN_ALPHA, app_exec,
                   global_state, queue, hk_pc, held, frame>>

\* QTimer.singleShot(150, self.activate_effect) fires
SingleShot_activate_effect ==
    /\ overlay.reactivate_pending > 0
    /\ \E front \in {"app", None} :
           overlay' = [activate_effect(overlay, IF IS_DARWIN THEN front ELSE None, cursor)
                          EXCEPT !.reactivate_pending = @ - 1]
    /\ UNCHANGED <<MODES, IS_DARWIN, LASER_MIN_ALPHA, app_exec,
                   global_state, current_geometry, cursor,
                   queue, hk_pc, held, frame>>

\* QTimer.singleShot(30, _reactivate) fires
SingleShot_reactivate ==
    /\ overlay.focus_restore_pending > 0
    /\ overlay' = _reactivate(overlay)
    /\ UNCHANGED <<MODES, IS_DARWIN, LASER_MIN_ALPHA, app_exec,
                   global_state, current_geometry, cursor,
                   queue, hk_pc, held, frame>>

\* the repaint that update() asked for
Paint ==
    /\ overlay.update_pending
    /\ frame' = paintEvent(overlay)
    /\ overlay' = [overlay EXCEPT !.update_pending = FALSE]
    /\ UNCHANGED <<MODES, IS_DARWIN, LASER_MIN_ALPHA, app_exec,
                   global_state, current_geometry, cursor,
                   queue, hk_pc, held>>

-----------------------------------------------------------------------------
(* The environment: the presenter moves the pointer *)

MovePointer ==
    /\ \E pos \in Positions \ {cursor} : cursor' = pos
    /\ UNCHANGED <<MODES, IS_DARWIN, LASER_MIN_ALPHA, app_exec,
                   global_state, overlay, current_geometry,
                   queue, hk_pc, held, frame>>

-----------------------------------------------------------------------------

Next ==
    \/ HK_mode_switch
    \/ HK_emit_mode_changed
    \/ HK_activate
    \/ HK_set_toggled
    \/ HK_deactivate
    \/ Slot_activate_effect
    \/ Slot_deactivate_effect
    \/ Slot_on_mode_changed
    \/ TimerTick
    \/ ScreenCheckTick
    \/ SingleShot_activate_effect
    \/ Paint
    \/ MovePointer

Spec == Init /\ [][Next]_vars

\* the timers of the GUI thread's event loop fire
LiveSpec == Spec /\ WF_vars(SingleShot_activate_effect)

(* macOS with PyObjC: the focus bookkeeping of activate_effect and          *)
(* deactivate_effect is live.  It feeds nothing back into the rest of the  *)
(* state, so one mode sequence with a toggle and a hold mode is explored.  *)
InitDarwin ==
    /\ MODES = <<"SPOTLIGHT_TOGGLE", "LASER">>
    /\ LASER_MIN_ALPHA = DEFAULT_LASER_MIN_ALPHA
    /\ app_exec = TRUE
    /\ IS_DARWIN = TRUE
    /\ cursor \in Positions
    /\ global_state = GlobalState_init(MODES)
    /\ overlay = PresenterOverlay_init(_get_current_screen_geometry(cursor),
                                       global_state.current_mode)
    /\ current_geometry = _get_current_screen_geometry(cursor)
    /\ queue = <<>>
    /\ hk_pc = "idle"
    /\ held = FALSE
    /\ frame = <<>>

NextDarwin == Next \/ SingleShot_reactivate

SpecDarwin == InitDarwin /\ [][NextDarwin]_vars

LiveSpecDarwin == SpecDarwin /\ WF_vars(SingleShot_activate_effect)

(* The toggle scenario: SPOTLIGHT_TOGGLE is the only configured mode, the   *)
(* presenter presses and releases the button and moves the pointer; the     *)
(* mode is not cycled and the display does not change.                      *)
InitToggle ==
    /\ MODES = <<"SPOTLIGHT_TOGGLE">>
    /\ LASER_MIN_ALPHA = DEFAULT_LASER_MIN_ALPHA
    /\ app_exec = TRUE
    /\ IS_DARWIN = FALSE
    /\ cursor \in Positions
    /\ global_state = GlobalState_init(MODES)
    /\ overlay = PresenterOverlay_init(_get_current_screen_geometry(cursor),
                                       global_state.current_mode)
    /\ current_geometry = _get_current_screen_geometry(cursor)
    /\ queue = <<>>
    /\ hk_pc = "idle"
    /\ held = FALSE
    /\ frame = <<>>

NextToggle ==
    \/ HK_activate
    \/ HK_set_toggled
    \/ HK_deactivate
    \/ Slot_activate_effect
    \/ Slot_deactivate_effect
    \/ TimerTick
    \/ Paint
    \/ MovePointer

ToggleSpec == InitToggle /\ [][NextToggle]_vars

-----------------------------------------------------------------------------
(* Properties *)

local_cursor == mapFromGlobal(overlay.geometry, cursor)

\* the overlay after k timer ticks that all read the pointer at pos
RECURSIVE Ticks(_, _, _)
Ticks(o, pos, k) == IF k = 0 THEN o ELSE Ticks(_on_timer_tick(o, pos), pos, k - 1)

\* the global state after k calls of cycle_mode
RECURSIVE Cycles(_, _)
Cycles(gs, k) == IF k = 0 THEN gs ELSE Cycles(cycle_mode(gs, MODES), k - 1)

Max(a, b) == IF a >= b THEN a ELSE b

\* C1: the laser trail never holds more than LASER_MAX_TRAIL_LENGTH points, and
\* a tick that sees the pointer moved in laser mode with the effect active
\* appends the new point at the back, dropping exactly the front point when the
\* trail was full.
TrailBound ==
    /\ Len(overlay.laser_trail) <= LASER_MAX_TRAIL_LENGTH
    /\ \A pos \in Positions :
         LET t == overlay.laser_trail
             p == mapFromGlobal(overlay.geometry, pos)
             t2 == _on_timer_tick(overlay, pos).laser_trail
         IN (p # overlay.mouse_pos /\ overlay.is_laser_mode /\ overlay.overlay_active)
            => /\ Len(t2) <= LASER_MAX_TRAIL_LENGTH
               /\ t2[Len(t2)] = p
               /\ IF Len(t) < LASER_MAX_TRAIL_LENGTH
                  THEN SubSeq(t2, 1, Len(t2) - 1) = t
                  ELSE SubSeq(t2, 1, Len(t2) - 1) = SubSeq(t, 2, Len(t))

\* C1 witness: the trail is full and the next tick sees the pointer moved
TrailBoundWitness ==
    /\ overlay.timer_active /\ overlay.is_laser_mode /\ overlay.overlay_active
    /\ Len(overlay.laser_trail) = LASER_MAX_TRAIL_LENGTH
    /\ local_cursor # overlay.mouse_pos

\* C2: from a full trail, k ticks that see the pointer where it was leave
\* max(N - k, 1) points: one point fewer per tick, one point after N - 1 ticks
\* and one point ever after.
IdleDecay ==
    (/\ overlay.is_laser_mode
     /\ Len(overlay.laser_trail) = LASER_MAX_TRAIL_LENGTH
     /\ local_cursor = overlay.mouse_pos)
    => \A k \in 0..(LASER_MAX_TRAIL_LENGTH + 2) :
         Len(Ticks(overlay, cursor, k).laser_trail) = Max(LASER_MAX_TRAIL_LENGTH - k, 1)

\* C2 witness: a full trail of more than one point with the pointer at rest
IdleDecayWitness ==
    /\ overlay.timer_active /\ overlay.is_laser_mode
    /\ Len(overlay.laser_trail) = LASER_MAX_TRAIL_LENGTH
    /\ LASER_MAX_TRAIL_LENGTH > 1
    /\ local_cursor = overlay.mouse_pos

\* C3: a second activate_effect after a first changes nothing, wherever the
\* pointer is by then, and a second deactivate_effect after a first changes
\* nothing; neither touches the mode or is_toggled_on, which are not fields of
\* the overlay.
Idempotent ==
    /\ \A p1, p2 \in Positions : \A f1, f2 \in {"app", None} :
         activate_effect(activate_effect(overlay, f1, p1), f2, p2)
             = activate_effect(overlay, f1, p1)
    /\ \A s1, s2 \in BOOLEAN :
         deactivate_effect(deactivate_effect(overlay, s1), s2)
             = deactivate_effect(overlay, s1)

\* C3 witness: effect_activate is delivered while the effect is active and the
\* pointer is no longer where the first activation captured it
IdempotentWitness ==
    /\ queue # <<>> /\ Head(queue)[1] = "effect_activate"
    /\ overlay.overlay_active
    /\ local_cursor # overlay.mouse_pos

\* C4: the current mode is the configured mode at mode_index; k calls of
\* cycle_mode advance mode_index by k modulo len(MODES), so len(MODES) calls
\* lead back to the mode they started from;
\* is_toggled_on is false after cycle_mode, and in the state handle_mode_switch
\* leaves behind its call of cycle_mode.
ModeCycle ==
    /\ MODES # <<>> =>
         /\ global_state.mode_index \in 0..(Len(MODES) - 1)
         /\ global_state.current_mode = MODES[global_state.mode_index + 1]
         /\ Cycles(global_state, Len(MODES)) =
                [global_state EXCEPT !.is_toggled_on = FALSE]
         /\ \A k \in 0..Len(MODES) :
                Cycles(global_state, k).mode_index =
                    (global_state.mode_index + k) % Len(MODES)
    /\ ~cycle_mode(global_state, MODES).is_toggled_on
    /\ hk_pc = "emit_mode_changed" => ~global_state.is_toggled_on

\* C4 witness: the spotlight was toggled on and is still shown, and
\* handle_mode_switch has just cycled from SPOTLIGHT_TOGGLE to LASER
ModeCycleWitness ==
    /\ hk_pc = "emit_mode_changed"
    /\ MODES # <<>> /\ MODES[1] = "SPOTLIGHT_TOGGLE"
    /\ global_state.current_mode = "LASER"
    /\ overlay.overlay_active /\ overlay.is_spotlight_mode

HoldModes == {"SPOTLIGHT_HOLD", "LASER"}

KnownModes == {"SPOTLIGHT_HOLD", "SPOTLIGHT_TOGGLE", "LASER"}

AllModes == KnownModes \cup {"OTHER"}

TransparentFrame ==
    <<[op |-> "fillRect", mode |-> "SourceOver", color |-> "transparent"]>>

\* C5: with SPOTLIGHT_TOGGLE alone and starting off, once a press is fully
\* handled the effect is active exactly if is_toggled_on; every completed
\* handle_activate inverts is_toggled_on, so the first press gives true and
\* active, the second false and inactive; handle_deactivate changes neither
\* the global state nor the overlay and queues nothing.
ToggleScenario ==
    /\ []((hk_pc = "idle" /\ queue = <<>>)
            => overlay.overlay_active = global_state.is_toggled_on)
    /\ [][(hk_pc # "idle" /\ hk_pc' = "idle")
            => global_state'.is_toggled_on = ~global_state.is_toggled_on]_vars
    /\ [][HK_activate => hk_pc' # "idle"]_vars
    /\ [][HK_deactivate => UNCHANGED <<global_state, overlay, queue>>]_vars

\* C5 witness: the first press switched the spotlight on, the second press has
\* cleared is_toggled_on and its effect_deactivate is about to be delivered
ToggleScenarioWitness ==
    /\ global_state.current_mode = "SPOTLIGHT_TOGGLE"
    /\ hk_pc = "idle" /\ queue = << <<"effect_deactivate">> >>
    /\ ~global_state.is_toggled_on
    /\ overlay.overlay_active

\* C6: with hold modes only, when the button is up and every intent has been
\* handled (so the last release has been processed and no press followed it)
\* the effect is not active.
HoldOnlyWhileHeld ==
    (/\ \A i \in 1..Len(MODES) : MODES[i] \in HoldModes
     /\ ~held /\ hk_pc = "idle" /\ queue = <<>>)
    => ~overlay.overlay_active

\* C7: _on_mode_changed leaves the effect inactive with an empty trail, the mode
\* flags and the animation timer as the mode it reads demands and a repaint
\* requested, and that repaint is transparent.
ModeChangeDeactivates ==
    \A m \in AllModes :
        LET o2 == _on_mode_changed(overlay, m)
        IN /\ ~o2.overlay_active
           /\ o2.laser_trail = <<>>
           /\ o2.is_spotlight_mode = (m \in {"SPOTLIGHT_HOLD", "SPOTLIGHT_TOGGLE"})
           /\ o2.is_laser_mode = (m = "LASER")
           /\ o2.timer_active = (m \in KnownModes)
           /\ o2.update_pending
           /\ paintEvent(o2) = TransparentFrame

\* C7 witness: mode_changed is about to be handled while the laser is active
\* with a trail
ModeChangeDeactivatesWitness ==
    /\ queue # <<>> /\ Head(queue)[1] = "mode_changed"
    /\ overlay.overlay_active /\ overlay.is_laser_mode
    /\ overlay.laser_trail # <<>>

\* C8: a step that changes current_mode or mode_index is the cycle_mode call of
\* handle_mode_switch.
OnlyCycleChangesMode ==
    [][(\/ global_state'.current_mode # global_state.current_mode
        \/ global_state'.mode_index # global_state.mode_index)
       => (hk_pc = "idle" /\ hk_pc' = "emit_mode_changed")]_vars

\* C8 witness: the mode was cycled to LASER and has stayed there through an
\* activation, pointer-moved ticks and a press in progress
OnlyCycleChangesModeWitness ==
    /\ global_state.current_mode = "LASER" /\ global_state.mode_index = 1
    /\ overlay.overlay_active /\ overlay.laser_trail # <<>>
    /\ held /\ queue # <<>> /\ Head(queue)[1] = "effect_activate"

\* C9: deactivate_effect on an active effect clears overlay_active and the
\* trail and requests a repaint; a repaint while the effect is inactive is
\* transparent; so with the effect inactive and no repaint pending the frame on
\* screen is transparent.
DeactivationClears ==
    /\ overlay.overlay_active =>
         \A sw \in BOOLEAN :
             LET o2 == deactivate_effect(overlay, sw)
             IN ~o2.overlay_active /\ o2.laser_trail = <<>> /\ o2.update_pending
    /\ ~overlay.overlay_active => paintEvent(overlay) = TransparentFrame
    /\ (~overlay.overlay_active /\ ~overlay.update_pending) => frame = TransparentFrame

\* C9 witness: the effect was deactivated while a painted effect is still on
\* screen, and the repaint is pending
DeactivationClearsWitness ==
    /\ ~overlay.overlay_active /\ overlay.update_pending
    /\ Len(frame) > 1
    /\ overlay.reactivate_pending = 0

\* C10: a screen change leaves the effect inactive with an empty trail, the
\* overlay on the display the handler finds the pointer on, a repaint requested
\* and no focus restore scheduled; it schedules one re-activation if the effect
\* was active and none otherwise; a scheduled re-activation of an inactive
\* effect leads to the effect being active with an empty trail.
ScreenChangeRestores ==
    /\ [][current_geometry' # current_geometry =>
            /\ ~overlay'.overlay_active
            /\ overlay'.laser_trail = <<>>
            /\ overlay'.geometry = _get_current_screen_geometry(cursor')
            /\ overlay'.update_pending
            /\ overlay'.focus_restore_pending = overlay.focus_restore_pending
            /\ overlay'.reactivate_pending =
                   overlay.reactivate_pending + (IF overlay.overlay_active THEN 1 ELSE 0)
         ]_vars
    /\ (overlay.reactivate_pending > 0 /\ ~overlay.overlay_active)
           ~> (overlay.overlay_active /\ overlay.laser_trail = <<>>)

\* C10 witness: the screen changed while the laser was shown; the effect is off,
\* its re-activation is scheduled and no focus restore is, although a
\* frontmost application was recorded
ScreenChangeRestoresWitness ==
    /\ overlay.reactivate_pending > 0 /\ ~overlay.overlay_active
    /\ overlay.is_laser_mode /\ overlay.update_pending
    /\ overlay.geometry = current_geometry
    /\ overlay.previous_frontmost_app # None /\ overlay.focus_restore_pending = 0

\* C11: a step that activates the effect while the pointer is on a display
\* leaves the overlay with the geometry of that display.
ActivationOnPointerDisplay ==
    [][(/\ ~overlay.overlay_active /\ overlay'.overlay_active
        /\ screenAt(cursor') # <<>>)
       => overlay'.geometry = screenAt(cursor')[1]]_vars

\* C12: a step of the hotkey listener thread (a step of one of its handlers)
\* writes neither mode_index, current_mode, is_toggled_on, overlay_active nor
\* the trail; it only queues signals.
ListenerPostsOnly ==
    [][(\/ HK_mode_switch \/ HK_emit_mode_changed
        \/ HK_activate \/ HK_set_toggled \/ HK_deactivate)
       => /\ global_state' = global_state
          /\ overlay'.overlay_active = overlay.overlay_active
          /\ overlay'.laser_trail = overlay.laser_trail]_vars

\* C13 as stated: a step that deactivates the effect leaves the animation timer
\* stopped, and once the effect has been shown and deactivated (its last frame
\* is still on screen or was repainted since) no step changes the recorded
\* pointer position or the trail while the effect stays inactive.
AnimationOnlyWhileActive ==
    /\ [][(overlay.overlay_active /\ ~overlay'.overlay_active)
             => ~overlay'.timer_active]_vars
    /\ [][(~overlay.overlay_active /\ ~overlay'.overlay_active /\ Len(frame) > 1)
             => /\ overlay'.mouse_pos = overlay.mouse_pos
                /\ overlay'.laser_trail = overlay.laser_trail]_vars

\* C13 amended: the animation timer follows the mode flags, not the activation:
\* it runs exactly while the flags say laser or spotlight, and activate_effect
\* and deactivate_effect leave it as it is; while the effect is inactive the
\* trail is empty, and a tick changes at most the recorded pointer position (no
\* trail point, no repaint request).
AnimationFollowsMode ==
    /\ overlay.timer_active = (overlay.is_laser_mode \/ overlay.is_spotlight_mode)
    /\ \A pos \in Positions : \A front \in {"app", None} :
           activate_effect(overlay, front, pos).timer_active = overlay.timer_active
    /\ \A sw \in BOOLEAN :
           deactivate_effect(overlay, sw).timer_active = overlay.timer_active
    /\ ~overlay.overlay_active =>
           /\ overlay.laser_trail = <<>>
           /\ \A pos \in Positions :
                  _on_timer_tick(overlay, pos) =
                      [overlay EXCEPT !.mouse_pos = mapFromGlobal(overlay.geometry, pos)]

\* C13 witness: the laser was painted and then deactivated; the timer still
\* runs and its next tick sees the pointer moved
AnimationFollowsModeWitness ==
    /\ ~overlay.overlay_active /\ overlay.timer_active /\ overlay.is_laser_mode
    /\ Len(frame) > 1
    /\ local_cursor # overlay.mouse_pos

\* the overlay after ticks that read the pointer at ps[1], ps[2], ... in turn
RECURSIVE TickSeq(_, _)
TickSeq(o, ps) ==
    IF ps = <<>> THEN o ELSE TickSeq(_on_timer_tick(o, Head(ps)), Tail(ps))

\* every tick of TickSeq(o, ps) sees the pointer moved
AllMoved(o, ps) ==
    \A j \in 1..Len(ps) :
        mapFromGlobal(o.geometry, ps[j]) #
            (IF j = 1 THEN o.mouse_pos ELSE mapFromGlobal(o.geometry, ps[j - 1]))

Min(a, b) == IF a <= b THEN a ELSE b

\* the last n elements of s
LastN(s, n) == SubSeq(s, Len(s) - n + 1, Len(s))

\* C14: in laser mode with the effect active a pointer-moved tick records the
\* position and appends it at the back of the trail; from an activation (trail
\* still empty) k pointer-moved ticks in a row leave exactly the last min(k, N)
\* positions read, in the order read with the newest last, for k up to N + 1;
\* a deactivation after them leaves the trail empty.
TrailRecordsMoves ==
    (overlay.overlay_active /\ overlay.is_laser_mode) =>
        /\ \A pos \in Positions :
               LET p == mapFromGlobal(overlay.geometry, pos)
                   o2 == _on_timer_tick(overlay, pos)
               IN p # overlay.mouse_pos =>
                      /\ o2.mouse_pos = p
                      /\ o2.laser_trail # <<>>
                      /\ o2.laser_trail[Len(o2.laser_trail)] = p
        /\ overlay.laser_trail = <<>> =>
               \A k \in 1..(LASER_MAX_TRAIL_LENGTH + 1) :
                   \A ps \in [1..k -> Positions] :
                       AllMoved(overlay, ps) =>
                           LET o2 == TickSeq(overlay, ps)
                               read == [j \in 1..k |->
                                           mapFromGlobal(overlay.geometry, ps[j])]
                           IN /\ o2.laser_trail =
                                     LastN(read, Min(k, LASER_MAX_TRAIL_LENGTH))
                              /\ o2.mouse_pos = read[k]
                              /\ \A sw \in BOOLEAN :
                                     deactivate_effect(o2, sw).laser_trail = <<>>

\* C14 witness: the laser has just been activated (no point yet) and the next
\* tick sees the pointer moved
TrailRecordsMovesWitness ==
    /\ overlay.overlay_active /\ overlay.is_laser_mode /\ overlay.timer_active
    /\ overlay.laser_trail = <<>>
    /\ local_cursor # overlay.mouse_pos

-----------------------------------------------------------------------------
(* The painting of a laser trail on its own: min_alpha is any value 0..255   *)
(* of the config file and the trail has 1..MaxTotal points.                 *)

InitAlpha ==
    /\ MODES = <<"SPOTLIGHT_HOLD", "LASER">>
    /\ IS_DARWIN = FALSE
    /\ LASER_MIN_ALPHA \in 0..255
    /\ app_exec = TRUE
    /\ cursor = 0
    /\ global_state = GlobalState_init(MODES)
    /\ overlay = PresenterOverlay_init(_get_current_screen_geometry(cursor),
                                       global_state.current_mode)
    /\ current_geometry = _get_current_screen_geometry(cursor)
    /\ queue = <<>>
    /\ hk_pc = "idle"
    /\ held = FALSE
    /\ frame = <<>>

\* the overlay in laser mode, effect active, with a trail of total points
LaserOverlay(total) ==
    [overlay EXCEPT !.overlay_active = TRUE,
                    !.is_laser_mode = TRUE,
                    !.is_spotlight_mode = FALSE,
                    !.laser_trail = [k \in 1..total |-> k % 3],
                    !.update_pending = FALSE]

\* paintEvent on a trail of total points
PaintLaserTrail ==
    /\ \E total \in 1..MaxTotal :
           /\ overlay' = LaserOverlay(total)
           /\ frame' = paintEvent(LaserOverlay(total))
    /\ UNCHANGED <<MODES, IS_DARWIN, LASER_MIN_ALPHA, app_exec,
                   global_state, current_geometry, cursor, queue, hk_pc, held>>

AlphaSpec == InitAlpha /\ [][PaintLaserTrail]_vars

\* a frame of the laser branch of paintEvent: the clear, then the dots
IsLaserFrame(f) == Len(f) >= 2 /\ f[2].op = "drawEllipse"

\* C15 as stated: in a painted trail of total >= 2 points the newest dot has
\* alpha 255 and the head radius; every other dot i has the base radius and
\* alpha int(min_alpha + (255 - min_alpha) * i / (total - 1)), which is at
\* least min_alpha, below 255 and greater than that of dot i - 1.
HeadDot ==
    (IsLaserFrame(frame) /\ Len(frame) - 1 >= 2) =>
        LET total == Len(frame) - 1 IN
        /\ frame[total + 1].alpha = 255
        /\ frame[total + 1].radius = "base*head"
        /\ \A i \in 0..(total - 2) :
               LET a == frame[i + 2].alpha IN
               /\ frame[i + 2].radius = "base"
               /\ a = LASER_MIN_ALPHA + ((255 - LASER_MIN_ALPHA) * i) \div (total - 1)
               /\ LASER_MIN_ALPHA <= a /\ a < 255
               /\ i > 0 => frame[i + 1].alpha < a

\* C15 amended: as stated, except that the other dots' alphas lie in
\* [min_alpha, 255] and never decrease with i; they lie below 255 and strictly
\* increase exactly when 255 - min_alpha >= total - 1.
HeadDotAmended ==
    (IsLaserFrame(frame) /\ Len(frame) - 1 >= 2) =>
        LET total == Len(frame) - 1
            others == 0..(total - 2)
            alpha(i) == frame[i + 2].alpha
        IN /\ frame[total + 1].alpha = 255
           /\ frame[total + 1].radius = "base*head"
           /\ \A i \in others :
                  /\ frame[i + 2].radius = "base"
                  /\ alpha(i) = LASER_MIN_ALPHA
                                  + ((255 - LASER_MIN_ALPHA) * i) \div (total - 1)
                  /\ LASER_MIN_ALPHA <= alpha(i) /\ alpha(i) <= 255
                  /\ i > 0 => alpha(i - 1) <= alpha(i)
           /\ (255 - LASER_MIN_ALPHA >= total - 1)
                  <=> \A i \in others :
                          alpha(i) < 255 /\ (i > 0 => alpha(i - 1) < alpha(i))

\* C15 witness: a painted trail of at least three points with min_alpha at the
\* greatest value for which the alphas still increase strictly
HeadDotAmendedWitness ==
    /\ IsLaserFrame(frame) /\ Len(frame) - 1 >= 3
    /\ 255 - LASER_MIN_ALPHA = Len(frame) - 2

-----------------------------------------------------------------------------
(* Quit: handle_quit in the listener thread, app.quit in the GUI thread.     *)
(* hotkey_listener is assigned before the listener is started, so            *)
(* handle_quit always finds it and stops it.  A stopped pynput listener      *)
(* calls no further handler; the handler that called stop() runs on.        *)

\* handle_quit emitting app_quit with the listener left running
HK_quit_emit_keeps_listening ==
    /\ hk_pc = "quit_stopped"
    /\ Len(queue) < MaxQueue
    /\ emit(<<"app_quit">>)
    /\ hk_pc' = "idle"
    /\ UNCHANGED <<MODES, IS_DARWIN, LASER_MIN_ALPHA, app_exec,
                   global_state, overlay, current_geometry, cursor, held, frame>>

\* handle_quit, up to and including hotkey_listener.stop()
HK_quit ==
    /\ hk_pc = "idle"
    /\ hk_pc' = "quit_stopped"
    /\ UNCHANGED <<MODES, IS_DARWIN, LASER_MIN_ALPHA, app_exec,
                   global_state, overlay, current_geometry, cursor, queue, held,
                   frame>>

\* handle_quit: emitter.app_quit.emit(); the listener thread then ends
HK_quit_emit ==
    /\ hk_pc = "quit_stopped"
    /\ Len(queue) < MaxQueue
    /\ emit(<<"app_quit">>)
    /\ hk_pc' = "stopped"
    /\ UNCHANGED <<MODES, IS_DARWIN, LASER_MIN_ALPHA, app_exec,
                   global_state, overlay, current_geometry, cursor, held, frame>>

\* app_quit -> app.quit: app.exec() returns and sys.exit ends the process,
\* the daemon listener thread with it
Slot_app_quit ==
    /\ queue # <<>> /\ Head(queue)[1] = "app_quit"
    /\ queue' = Tail(queue)
    /\ app_exec' = FALSE
    /\ UNCHANGED <<MODES, IS_DARWIN, LASER_MIN_ALPHA,
                   global_state, overlay, current_geometry, cursor, hk_pc, held,
                   frame>>

\* quitting reads neither the mode nor the overlay, so one mode sequence with
\* a toggle and a hold mode is explored
InitQuit ==
    /\ MODES = <<"SPOTLIGHT_TOGGLE", "LASER">>
    /\ IS_DARWIN = FALSE
    /\ LASER_MIN_ALPHA = DEFAULT_LASER_MIN_ALPHA
    /\ app_exec = TRUE
    /\ cursor \in Positions
    /\ global_state = GlobalState_init(MODES)
    /\ overlay = PresenterOverlay_init(_get_current_screen_geometry(cursor),
                                       global_state.current_mode)
    /\ current_geometry = _get_current_screen_geometry(cursor)
    /\ queue = <<>>
    /\ hk_pc = "idle"
    /\ held = FALSE
    /\ frame = <<>>

\* nothing runs once the process has exited
NextQuit ==
    \/ app_exec /\ HK_mode_switch
    \/ app_exec /\ HK_emit_mode_changed
    \/ app_exec /\ HK_activate
    \/ app_exec /\ HK_set_toggled
    \/ app_exec /\ HK_deactivate
    \/ app_exec /\ HK_quit
    \/ app_exec /\ HK_quit_emit
    \/ app_exec /\ Slot_activate_effect
    \/ app_exec /\ Slot_deactivate_effect
    \/ app_exec /\ Slot_on_mode_changed
    \/ app_exec /\ Slot_app_quit
    \/ app_exec /\ TimerTick
    \/ app_exec /\ ScreenCheckTick
    \/ app_exec /\ SingleShot_activate_effect
    \/ app_exec /\ Paint
    \/ app_exec /\ MovePointer

QuitSpec == InitQuit /\ [][NextQuit]_vars

\* the GUI thread's event loop delivers the signal at the head of the queue
GuiSlots ==
    /\ app_exec
    /\ \/ Slot_activate_effect
       \/ Slot_deactivate_effect
       \/ Slot_on_mode_changed
       \/ Slot_app_quit

\* the event loop keeps delivering queued signals and handle_quit runs on
LiveQuitSpec ==
    QuitSpec /\ WF_vars(GuiSlots) /\ WF_vars(app_exec /\ HK_quit_emit)

\* app_quit has been emitted
ShutdownSignalled ==
    \/ hk_pc = "stopped"
    \/ \E k \in 1..Len(queue) : queue[k][1] = "app_quit"
    \/ ~app_exec

\* C16: app_quit is emitted only by a listener that has been stopped; once the
\* listener is stopped no handler of activate, deactivate or mode switch takes
\* a step, so that none follows the shutdown signal; and a quit that has
\* stopped the listener leads to the end of the application.
QuitOrdering ==
    /\ [][(~ShutdownSignalled /\ ShutdownSignalled') => hk_pc = "quit_stopped"]_vars
    /\ [][(hk_pc = "quit_stopped" \/ ShutdownSignalled)
             => ~(\/ HK_mode_switch \/ HK_emit_mode_changed
                  \/ HK_activate \/ HK_set_toggled \/ HK_deactivate)]_vars
    /\ [][ShutdownSignalled => ShutdownSignalled']_vars
    /\ (hk_pc = "quit_stopped") ~> ~app_exec

\* C16 witness: the shutdown signal is queued behind nothing, the listener has
\* ended, and the application still shows the effect
QuitOrderingWitness ==
    /\ hk_pc = "stopped" /\ app_exec
    /\ queue = << <<"app_quit">> >>
    /\ overlay.overlay_active /\ held

-----------------------------------------------------------------------------

\* C17: a tick that reads the pointer where it was recorded changes nothing and
\* requests no repaint, except in laser mode with more than one trail point,
\* where it removes exactly the oldest point and requests a repaint; a trail of
\* no or one point, and every spotlight mode, are left as they are.
IdleTick ==
    \A pos \in Positions :
        mapFromGlobal(overlay.geometry, pos) = overlay.mouse_pos =>
            LET o2 == _on_timer_tick(overlay, pos) IN
            IF overlay.is_laser_mode /\ Len(overlay.laser_trail) > 1
            THEN o2 = [overlay EXCEPT !.laser_trail = Tail(@),
                                      !.update_pending = TRUE]
            ELSE o2 = overlay

\* C17 witness: the laser shows a trail of more than one point, nothing is to
\* be repainted and the next tick finds the pointer at rest
IdleTickWitness ==
    /\ overlay.timer_active /\ overlay.is_laser_mode
    /\ Len(overlay.laser_trail) > 1
    /\ ~overlay.update_pending
    /\ local_cursor = overlay.mouse_pos

-----------------------------------------------------------------------------
(* The button held down: SPOTLIGHT_HOLD is the only configured mode, the     *)
(* presenter presses the button and keeps it down (the key may repeat) and   *)
(* moves the pointer on one display.  The effect is activated once; every    *)
(* later press finds it active and changes nothing.                          *)

InitHeld ==
    /\ MODES = <<"SPOTLIGHT_HOLD">>
    /\ IS_DARWIN = FALSE
    /\ LASER_MIN_ALPHA = DEFAULT_LASER_MIN_ALPHA
    /\ app_exec = TRUE
    /\ cursor \in Positions
    /\ global_state = GlobalState_init(MODES)
    /\ overlay = PresenterOverlay_init(_get_current_screen_geometry(cursor),
                                       global_state.current_mode)
    /\ current_geometry = _get_current_screen_geometry(cursor)
    /\ queue = <<>>
    /\ hk_pc = "idle"
    /\ held = FALSE
    /\ frame = <<>>

NextHeld ==
    \/ HK_activate
    \/ Slot_activate_effect
    \/ TimerTick
    \/ Paint
    \/ MovePointer

HeldSpec == InitHeld /\ [][NextHeld]_vars

\* the frame of the spotlight branch of paintEvent: clear, dim fill, hole, ring
IsSpotlightFrame(f) == Len(f) = 4 /\ f[3].mode = "DestinationOut"

\* C19: with the button held (one activation, so that no repaint but the first
\* follows an activation), a repaint in spotlight mode with the effect active
\* whose pointer position is the one the frame on screen was painted with
\* issues neither the hole nor the ring.
GhostAvoidance ==
    [][(/\ overlay.update_pending /\ ~overlay'.update_pending
        /\ overlay.overlay_active /\ overlay.is_spotlight_mode
        /\ IsSpotlightFrame(frame) /\ frame[3].at = overlay.mouse_pos)
       => \A k \in 1..Len(frame') : frame'[k].op # "drawEllipse"]_vars

-----------------------------------------------------------------------------

\* C20: every repaint starts with the transparent clear of the whole surface;
\* with the effect active in a spotlight mode it goes on with exactly the dim
\* fill (source-over), the hole (destination-out, at the recorded pointer
\* position) and the ring (source-over), in this order; in laser mode it goes
\* on with exactly one source-over circle per trail point, oldest first, and
\* with nothing when the trail is empty.
CompositingOrder ==
    LET f == paintEvent(overlay)
        trail == overlay.laser_trail
    IN /\ Len(f) >= 1 /\ f[1] = TransparentFrame[1]
       /\ frame # <<>> => frame[1] = TransparentFrame[1]
       /\ (overlay.overlay_active /\ overlay.is_spotlight_mode) =>
              /\ Len(f) = 4
              /\ f[2] = [op |-> "fillRect", mode |-> "SourceOver",
                         color |-> "BACKGROUND_COLOR"]
              /\ f[3].op = "drawEllipse" /\ f[3].mode = "DestinationOut"
              /\ f[3].at = overlay.mouse_pos /\ f[3].radius = "hole_radius"
              /\ f[4].op = "drawEllipse" /\ f[4].mode = "SourceOver"
              /\ f[4].at = overlay.mouse_pos /\ f[4].radius = "rim_radius"
       /\ overlay.is_laser_mode =>
              /\ Len(f) = 1 + Len(trail)
              /\ \A k \in 1..Len(trail) :
                     /\ f[k + 1].op = "drawEllipse" /\ f[k + 1].mode = "SourceOver"
                     /\ f[k + 1].at = trail[k]

\* C20 witness: a repaint is due with the spotlight active away from the
\* widget's origin, over a painted laser trail of two points
CompositingOrderWitness ==
    /\ overlay.update_pending
    /\ overlay.overlay_active /\ overlay.is_spotlight_mode
    /\ overlay.mouse_pos # 0
    /\ IsLaserFrame(frame) /\ Len(frame) = 3

-----------------------------------------------------------------------------
(* Empty mode sequence *)

\* C21: with an empty config.MODES the global state stays what
\* GlobalState.__init__ made it (mode_index 0, current_mode SPOTLIGHT_HOLD,
\* is_toggled_on false) in every reachable state, and a call of cycle_mode
\* returns SPOTLIGHT_HOLD and leaves the three fields as they are.
EmptyModes ==
    MODES = <<>> =>
        /\ global_state = [mode_index |-> 0, current_mode |-> "SPOTLIGHT_HOLD",
                           is_toggled_on |-> FALSE]
        /\ cycle_mode_result(global_state, MODES) = "SPOTLIGHT_HOLD"
        /\ cycle_mode(global_state, MODES) = global_state
        /\ overlay.is_spotlight_mode /\ ~overlay.is_laser_mode

\* C21 witness: handle_mode_switch has called cycle_mode on the empty sequence
\* while the effect is shown
EmptyModesWitness ==
    /\ MODES = <<>>
    /\ hk_pc = "emit_mode_changed"
    /\ overlay.overlay_active

-----------------------------------------------------------------------------
(* Toggle consistency *)

\* nothing is on its way: the listener is between handlers, no signal is
\* queued and no single-shot timer is outstanding
Quiescent ==
    /\ hk_pc = "idle"
    /\ queue = <<>>
    /\ overlay.reactivate_pending = 0
    /\ overlay.focus_restore_pending = 0

\* C22: in SPOTLIGHT_TOGGLE mode, whenever nothing is on its way, the effect
\* is active exactly if is_toggled_on is set.
ToggleConsistency ==
    (global_state.current_mode = "SPOTLIGHT_TOGGLE" /\ Quiescent)
    => overlay.overlay_active = global_state.is_toggled_on

-----------------------------------------------------------------------------
(* The trail and the activation *)

\* C23: in every reachable state an inactive effect has an empty trail, and
\* a trail with points in it belongs to an active effect whose overlay is in
\* laser mode.
InactiveTrailEmpty ==
    /\ ~overlay.overlay_active => overlay.laser_trail = <<>>
    /\ overlay.laser_trail # <<>> => (overlay.overlay_active /\ overlay.is_laser_mode)

\* C23 witness: the last frame painted shows laser dots, and the effect has
\* been deactivated since
InactiveTrailEmptyWitness ==
    /\ IsLaserFrame(frame)
    /\ ~overlay.overlay_active
    /\ overlay.laser_trail = <<>>

\* the newest point of a trail with points in it is the recorded pointer position
HeadAtPointer(o) ==
    o.laser_trail # <<>> => o.laser_trail[Len(o.laser_trail)] = o.mouse_pos

\* C24: in every reachable state a trail with points in it ends in mouse_pos,
\* and this still is so after a timer tick (pointer moved or at rest), after
\* activate_effect and after _on_screen_changed, wherever the pointer is.
TrailHeadAtPointer ==
    /\ HeadAtPointer(overlay)
    /\ \A pos \in Positions :
         /\ HeadAtPointer(_on_timer_tick(overlay, pos))
         /\ HeadAtPointer(activate_effect(overlay, None, pos))
         /\ HeadAtPointer(_on_screen_changed(overlay, pos))

\* C24 witness: an idle tick has dropped the older of the two points painted
\* last and asked for a repaint; the point left is where the pointer rests
TrailHeadAtPointerWitness ==
    /\ overlay.overlay_active /\ overlay.is_laser_mode
    /\ IsLaserFrame(frame) /\ Len(frame) = 3
    /\ frame[2].at # frame[3].at
    /\ overlay.laser_trail = <<frame[3].at>>
    /\ overlay.update_pending
    /\ local_cursor = overlay.mouse_pos

====
